---- MODULE Spec2Model ----
(***************************************************************************)
(* Model of src/recommender_api.py: the /recommend and /compare handlers   *)
(* of the FinGenius Recommender API over the catalog (recommender.         *)
(* stocks_data and recommender.similarity_matrix) loaded at startup.       *)
(*                                                                         *)
(* Strings that the code builds by formatting or joining are modelled as   *)
(* sequences of chunks; concatenation is sequence concatenation.           *)
(* Metric values are cells [kind, v]: a number, NaN (the value pandas      *)
(* holds for a missing numeric cell) or None (dict.get without default).   *)
(***************************************************************************)
EXTENDS Integers, Sequences, FiniteSets, TLC

VARIABLES index, stocks_data, similarity_matrix,
          request, response, engine_calls, threads

vars == <<index, stocks_data, similarity_matrix,
          request, response, engine_calls, threads>>

catalog == <<index, stocks_data, similarity_matrix>>

(* ------------------------------ bounds -------------------------------- *)

MaxPortfolioLen == 1

NumThreads == 2

(* ------------------------------ values -------------------------------- *)

Num(n) == [kind |-> "num", v |-> n]

NaN == [kind |-> "nan", v |-> 0]

None == [kind |-> "none", v |-> 0]

MetricValues == {-1, 1}

Cells == {Num(n) : n \in MetricValues} \cup {NaN}

VerdictMetrics == <<"sharpe_ratio", "beta", "esg_score", "roe">>

VerdictColumns == {VerdictMetrics[i] : i \in 1..Len(VerdictMetrics)}

OtherColumns == {"price", "market_cap", "pe_ratio", "dividend_yield"}

ResponseMetrics == <<"price", "market_cap", "pe_ratio", "beta", "roe",
                     "esg_score", "dividend_yield", "sharpe_ratio">>

CatalogTickers == <<"AAPL", "MSFT">>

TickerInputs == {"aapl", "MSFT", "TSLA"}

CompanyName(t) == <<t, " Inc.">>

(* similarity scores in units of 1e-4 *)
SimilarityValues == {8125}

SelfSimilarity == {10000}

Range(s) == {s[i] : i \in 1..Len(s)}

(* str.upper() on the request alphabet *)
Upper(s) ==
    CASE s = "aapl" -> "AAPL"
      [] s = "msft" -> "MSFT"
      [] s = "tsla" -> "TSLA"
      [] OTHER -> s

(* Python truthiness of an Optional[str] / Optional[List] field:           *)
(* None, "" and [] are falsy.                                              *)
NoneField == [kind |-> "none", val |-> <<>>]

StrField(s) == [kind |-> "str", val |-> s]

ListField(l) == [kind |-> "list", val |-> l]

(* a test for None only: "" and [] count as supplied *)
TruthyNotNone(f) == f.kind # "none"

Truthy(f) == f.kind # "none" /\ f.val # <<>>

(* ------------------------------ catalog ------------------------------- *)

(* dict.get(key, default) on a row dict *)
DictGet(d, k, default) == IF k \in DOMAIN d THEN d[k] ELSE default

(* recommender.stocks_data.loc[t].to_dict(): every column of the frame is  *)
(* a key of the dict; a missing cell is present with the value NaN.        *)
ToDict(data, t) == data[t]

(* recommender.stocks_data.index.get_loc(t) *)
GetLoc(idx, t) == CHOOSE i \in 1..Len(idx) : idx[i] = t

InIndex(idx, t) == t \in Range(idx)

(* round(similarity, 3) on a value held in units of 1e-4: nearest          *)
(* multiple of 10, ties to even.                                           *)
Round3(x) ==
    LET q == x \div 10
        r == x % 10
    IN  IF r < 5 THEN 10 * q
        ELSE IF r > 5 THEN 10 * (q + 1)
        ELSE IF q % 2 = 0 THEN 10 * q ELSE 10 * (q + 1)

(* ------------------------------ strings ------------------------------- *)

RECURSIVE Join(_, _)
(* sep.join(parts) *)
Join(parts, sep) ==
    IF parts = <<>> THEN <<>>
    ELSE IF Len(parts) = 1 THEN parts[1]
    ELSE parts[1] \o sep \o Join(Tail(parts), sep)

(* IEEE comparisons as Python evaluates them: false when either is NaN *)
Gt(a, b) == a.kind = "num" /\ b.kind = "num" /\ a.v > b.v

Lt(a, b) == a.kind = "num" /\ b.kind = "num" /\ a.v < b.v

PerformanceSentence(t) ==
    <<t, " gives better performance for the amount of risk it takes.">>

StableSentence(w, l) ==
    <<w, " tends to have a more stable price than ", l, ".">>

EsgSentence(t) ==
    <<t, " scores better on environmental and social responsibility.">>

EfficiencySentence(w, l) ==
    <<w, " uses investor money more efficiently than ", l, ".">>

FallbackVerdict == <<"Both stocks perform similarly across key factors.">>

NotFoundDetail == <<"One or both tickers not found.">>

ProvideDetail == <<"Provide either user_id or portfolio.">>

(* ----------------------------- exceptions ----------------------------- *)

HTTPException(status_code, detail) ==
    [cls |-> "HTTPException", status_code |-> status_code, detail |-> detail]

EngineException(msg) ==
    [cls |-> "Exception", status_code |-> 0, detail |-> msg]

StatusText(n) ==
    CASE n = 400 -> "400"
      [] n = 404 -> "404"
      [] n = 500 -> "500"
      [] OTHER -> "0"

(* str(e).  For an exception built as Exception(msg) it is msg.  An        *)
(* HTTPException is built with keyword arguments only, so its args are     *)
(* empty: str(e) is "" unless the installed Starlette defines __str__,     *)
(* which gives "<status_code>: <detail>".  Both outcomes are kept.         *)
StrOutcomes(e) ==
    IF e.cls = "HTTPException"
    THEN {<<>>, <<StatusText(e.status_code), ": ">> \o e.detail}
    ELSE {e.detail}

(* ----------------------------- responses ------------------------------ *)

NoBody == [empty |-> TRUE]

NoResponse == [kind |-> "none", status |-> 0, detail |-> <<>>, body |-> NoBody]

Ok(body) == [kind |-> "ok", status |-> 200, detail |-> <<>>, body |-> body]

(* what the caller observes for an HTTPException leaving the handler *)
Err(e) ==
    [kind |-> "error", status |-> e.status_code, detail |-> e.detail,
     body |-> NoBody]

Return(v) == [kind |-> "return", val |-> v]

Raise(e) == [kind |-> "raise", val |-> e]

(* ------------------------------ compare ------------------------------- *)

(* lines 95-98 *)
SharpeBranch(t1, t2, stock1, stock2) ==
    IF Gt(DictGet(stock1, "sharpe_ratio", Num(0)),
          DictGet(stock2, "sharpe_ratio", Num(0)))
    THEN <<PerformanceSentence(t1)>>
    ELSE IF Lt(DictGet(stock1, "sharpe_ratio", Num(0)),
               DictGet(stock2, "sharpe_ratio", Num(0)))
    THEN <<PerformanceSentence(t2)>>
    ELSE <<>>

(* the elif branch repeats the sentence of the if branch *)
BetaBranchRepeated(t1, t2, stock1, stock2) ==
    IF Lt(DictGet(stock1, "beta", Num(0)), DictGet(stock2, "beta", Num(0)))
       \/ Gt(DictGet(stock1, "beta", Num(0)), DictGet(stock2, "beta", Num(0)))
    THEN <<StableSentence(t1, t2)>>
    ELSE <<>>

(* lines 100-103 *)
BetaBranch(t1, t2, stock1, stock2) ==
    IF Lt(DictGet(stock1, "beta", Num(0)), DictGet(stock2, "beta", Num(0)))
    THEN <<StableSentence(t1, t2)>>
    ELSE IF Gt(DictGet(stock1, "beta", Num(0)),
               DictGet(stock2, "beta", Num(0)))
    THEN <<StableSentence(t2, t1)>>
    ELSE <<>>

(* lines 105-108 *)
EsgBranch(t1, t2, stock1, stock2) ==
    IF Gt(DictGet(stock1, "esg_score", Num(0)),
          DictGet(stock2, "esg_score", Num(0)))
    THEN <<EsgSentence(t1)>>
    ELSE IF Lt(DictGet(stock1, "esg_score", Num(0)),
               DictGet(stock2, "esg_score", Num(0)))
    THEN <<EsgSentence(t2)>>
    ELSE <<>>

(* lines 110-113 *)
RoeBranch(t1, t2, stock1, stock2) ==
    IF Gt(DictGet(stock1, "roe", Num(0)), DictGet(stock2, "roe", Num(0)))
    THEN <<EfficiencySentence(t1, t2)>>
    ELSE IF Lt(DictGet(stock1, "roe", Num(0)), DictGet(stock2, "roe", Num(0)))
    THEN <<EfficiencySentence(t2, t1)>>
    ELSE <<>>

(* line 115 *)
CombinedVerdict(verdict) ==
    IF verdict # <<>> THEN Join(verdict, <<" ">>) ELSE FallbackVerdict

(* the beta block placed before the Sharpe block *)
VerdictBetaFirst(t1, t2, stock1, stock2) ==
    CombinedVerdict(BetaBranch(t1, t2, stock1, stock2)
                    \o SharpeBranch(t1, t2, stock1, stock2)
                    \o EsgBranch(t1, t2, stock1, stock2)
                    \o RoeBranch(t1, t2, stock1, stock2))

(* lines 91-115: the verdict list after the four appends, then joined *)
Verdict(t1, t2, stock1, stock2) ==
    CombinedVerdict(SharpeBranch(t1, t2, stock1, stock2)
                    \o BetaBranch(t1, t2, stock1, stock2)
                    \o EsgBranch(t1, t2, stock1, stock2)
                    \o RoeBranch(t1, t2, stock1, stock2))

(* lines 118-135 *)
CompareBody(t1, t2, stock1, stock2, similarity, verdict) ==
    [ticker1 |-> t1,
     company1 |-> DictGet(stock1, "company_name", <<"N/A">>),
     ticker2 |-> t2,
     company2 |-> DictGet(stock2, "company_name", <<"N/A">>),
     similarity_score |-> Round3(similarity),
     metrics |-> [k \in Range(ResponseMetrics) |->
                    <<DictGet(stock1, k, None), DictGet(stock2, k, None)>>],
     verdict |-> verdict]

(* line 79 *)
TickersFound(idx, t1, t2) == InIndex(idx, t1) /\ InIndex(idx, t2)

(* lines 76-135: the body of the try block, returning or raising *)
CompareTry(idx, data, sim, req) ==
    LET t1 == Upper(req.ticker1)
        t2 == Upper(req.ticker2)
    IN  IF ~TickersFound(idx, t1, t2)
        THEN Raise(HTTPException(404, NotFoundDetail))
        ELSE LET stock1 == ToDict(data, t1)
                 stock2 == ToDict(data, t2)
                 similarity == sim[GetLoc(idx, t1)][GetLoc(idx, t2)]
             IN  Return(CompareBody(t1, t2, stock1, stock2, similarity,
                                    Verdict(t1, t2, stock1, stock2)))

(* lines 138-139: except Exception catches every exception of the try      *)
(* block, the HTTPException of line 80 included.                           *)
CompareExcept(e) == {HTTPException(500, d) : d \in StrOutcomes(e)}

(* lines 74-139: the responses the caller can observe *)
CompareResponses(idx, data, sim, req) ==
    LET r == CompareTry(idx, data, sim, req)
    IN  IF r.kind = "return" THEN {Ok(r.val)}
        ELSE {Err(x) : x \in CompareExcept(r.val)}

(* ----------------------------- recommend ------------------------------ *)

TickerWeight(ticker, weight) ==
    [cls |-> "TickerWeight", ticker |-> ticker, weight |-> weight]

(* p.dict() *)
PDict(p) == [ticker |-> p.ticker, weight |-> p.weight]

(* pd.DataFrame([p.dict() for p in req.portfolio]) *)
DataFrame(portfolio) ==
    [kind |-> "DataFrame",
     val |-> [i \in 1..Len(portfolio) |-> PDict(portfolio[i])]]

(* the user_id test placed before the portfolio test *)
DispatchUserFirst(req) ==
    IF Truthy(req.user_id) THEN "user"
    ELSE IF Truthy(req.portfolio) THEN "portfolio"
    ELSE "invalid"

(* lines 62-68: which branch of the if / elif / else is taken *)
Dispatch(req) ==
    IF Truthy(req.portfolio) THEN "portfolio"
    ELSE IF Truthy(req.user_id) THEN "user"
    ELSE "invalid"

(* lines 62-69: the body of the try block.  out is what the call of        *)
(* recommender.generate_recommendations does (returns a value or raises).  *)
RecommendTry(req, out) ==
    LET branch == Dispatch(req)
    IN  IF branch = "portfolio"
        THEN [calls |-> <<[user_input |-> DataFrame(req.portfolio.val),
                           outcome |-> out]>>,
              result |-> out]
        ELSE IF branch = "user"
        THEN [calls |-> <<[user_input |-> req.user_id, outcome |-> out]>>,
              result |-> out]
        ELSE [calls |-> <<>>,
              result |-> Raise(HTTPException(400, ProvideDetail))]

(* the except clause of /compare pasted into /recommend *)
RecommendExceptInternal(e) == {HTTPException(500, d) : d \in StrOutcomes(e)}

(* lines 70-71: except Exception catches every exception of the try        *)
(* block, the HTTPException of line 68 included.                           *)
RecommendExcept(e) == {HTTPException(400, d) : d \in StrOutcomes(e)}

RecommendResponses(result) ==
    IF result.kind = "return" THEN {Ok(result.val)}
    ELSE {Err(x) : x \in RecommendExcept(result.val)}

(* ------------------------------ inputs -------------------------------- *)

UserIds == {NoneField, StrField(<<>>), StrField(<<"u1">>), StrField(<<"u2">>)}

PortfolioEntries == {TickerWeight("AAPL", 6), TickerWeight("TSLA", 4)}

RECURSIVE SeqsUpTo(_, _)
SeqsUpTo(S, n) ==
    IF n = 0 THEN {<<>>}
    ELSE LET shorter == SeqsUpTo(S, n - 1)
         IN  shorter \cup {Append(q, x) : q \in shorter, x \in S}

Portfolios ==
    {NoneField} \cup {ListField(l) : l \in SeqsUpTo(PortfolioEntries, MaxPortfolioLen)}

EngineResults == {[recommendations |-> <<"MSFT">>], [recommendations |-> <<>>]}

EngineMessages == {<<"User not found in portfolio data">>, <<>>}

EngineOutcomes ==
    {Return(v) : v \in EngineResults}
        \cup {Raise(EngineException(m)) : m \in EngineMessages}

(* ------------------------------ startup ------------------------------- *)

FixedCell(t, k) == IF k = "company_name" THEN CompanyName(t) ELSE Num(1)

Row(t, cells) ==
    [k \in DOMAIN cells \cup OtherColumns \cup {"company_name"} |->
        IF k \in DOMAIN cells THEN cells[k] ELSE FixedCell(t, k)]

(* the frames load_data can produce over the columns cs *)
FramesOver(cs) ==
    {[t \in Range(CatalogTickers) |-> Row(t, f[t])] :
        f \in [Range(CatalogTickers) -> [cs -> Cells]]}

Frames == UNION {FramesOver(cs) : cs \in SUBSET VerdictColumns}

Matrices ==
    {[i \in 1..Len(CatalogTickers) |->
        [j \in 1..Len(CatalogTickers) |-> IF i = j THEN d ELSE s]] :
        d \in SelfSimilarity, s \in SimilarityValues}

NoRequest == [op |-> "none"]

Idle ==
    [pc |-> "idle", ticker1 |-> "", ticker2 |-> "", t1 |-> "", t2 |-> "",
     stock1 |-> <<>>, stock2 |-> <<>>, similarity |-> 0,
     exc |-> HTTPException(0, <<>>), response |-> NoResponse]

(* lines 23-36: the recommender is loaded; no request has been served *)
Init ==
    /\ index = CatalogTickers
    /\ stocks_data \in Frames
    /\ similarity_matrix \in Matrices
    /\ request = NoRequest
    /\ response = NoResponse
    /\ engine_calls = <<>>
    /\ threads = <<>>

(* ------------------------- requests, one at a time -------------------- *)

(* POST /compare *)
Compare ==
    \E ticker1 \in TickerInputs, ticker2 \in TickerInputs :
        LET req == [op |-> "compare", ticker1 |-> ticker1, ticker2 |-> ticker2]
        IN  /\ request' = req
            /\ response' \in CompareResponses(index, stocks_data,
                                               similarity_matrix, req)
            /\ engine_calls' = <<>>
            /\ UNCHANGED <<index, stocks_data, similarity_matrix, threads>>

(* POST /recommend *)
Recommend ==
    \E user_id \in UserIds, portfolio \in Portfolios, out \in EngineOutcomes :
        LET req == [op |-> "recommend", user_id |-> user_id,
                    portfolio |-> portfolio]
            r == RecommendTry(req, out)
        IN  /\ request' = req
            /\ engine_calls' = r.calls
            /\ response' \in RecommendResponses(r.result)
            /\ UNCHANGED <<index, stocks_data, similarity_matrix, threads>>

Next == Compare

Spec == Init /\ [][Next]_vars

(* the catalog of a small deployment: two stocks that differ on every      *)
(* metric, with and without a missing roe cell                             *)
ExampleCells(t, roe) ==
    IF t = "AAPL"
    THEN [sharpe_ratio |-> Num(1), beta |-> Num(1), esg_score |-> Num(-1),
          roe |-> roe]
    ELSE [sharpe_ratio |-> Num(-1), beta |-> Num(-1), esg_score |-> Num(1),
          roe |-> Num(-1)]

ExampleFrames ==
    {[t \in Range(CatalogTickers) |-> Row(t, ExampleCells(t, roe))] :
        roe \in {Num(1), NaN}}

InitExample ==
    /\ index = CatalogTickers
    /\ stocks_data \in ExampleFrames
    /\ similarity_matrix \in Matrices
    /\ request = NoRequest
    /\ response = NoResponse
    /\ engine_calls = <<>>
    /\ threads = <<>>

NextRecommend == Recommend

SpecRecommend == InitExample /\ [][NextRecommend]_vars

(* ---------------- /compare requests on worker threads ----------------- *)
(* FastAPI runs a def handler on a thread pool: handlers of different      *)
(* requests interleave between statements.                                 *)

Threads == 1..NumThreads

InitConcurrent ==
    /\ index = CatalogTickers
    /\ stocks_data \in ExampleFrames
    /\ similarity_matrix \in Matrices
    /\ request = NoRequest
    /\ response = NoResponse
    /\ engine_calls = <<>>
    /\ threads = [i \in Threads |-> Idle]

(* the row is filled in place (fillna(0, inplace=True)) before to_dict() *)
FrameAfterFillna(data, t) ==
    [data EXCEPT ![t] =
        [k \in DOMAIN data[t] |->
            IF k \in VerdictColumns /\ data[t][k] = NaN THEN Num(0)
            ELSE data[t][k]]]

(* .to_dict() builds a new dict: the frame is left as it was *)
FrameAfterToDict(data, t) == data

(* a request arrives and is handed to a free worker *)
Receive(i) ==
    /\ threads[i].pc \in {"idle", "done"}
    /\ \E ticker1 \in TickerInputs, ticker2 \in TickerInputs :
          threads' = [threads EXCEPT ![i] =
                        [Idle EXCEPT !.pc = "upper", !.ticker1 = ticker1,
                                     !.ticker2 = ticker2]]
    /\ UNCHANGED <<index, stocks_data, similarity_matrix,
                   request, response, engine_calls>>

(* lines 76-77 *)
Normalize(i) ==
    /\ threads[i].pc = "upper"
    /\ threads' = [threads EXCEPT ![i].t1 = Upper(threads[i].ticker1),
                                  ![i].t2 = Upper(threads[i].ticker2),
                                  ![i].pc = "check"]
    /\ UNCHANGED <<index, stocks_data, similarity_matrix,
                   request, response, engine_calls>>

(* lines 79-80 *)
CheckIndex(i) ==
    /\ threads[i].pc = "check"
    /\ IF TickersFound(index, threads[i].t1, threads[i].t2)
       THEN threads' = [threads EXCEPT ![i].pc = "stock1"]
       ELSE threads' = [threads EXCEPT
                          ![i].exc = HTTPException(404, NotFoundDetail),
                          ![i].pc = "except"]
    /\ UNCHANGED <<index, stocks_data, similarity_matrix,
                   request, response, engine_calls>>

(* line 82 *)
ReadStock1(i) ==
    /\ threads[i].pc = "stock1"
    /\ threads' = [threads EXCEPT
                     ![i].stock1 = ToDict(stocks_data, threads[i].t1),
                     ![i].pc = "stock2"]
    /\ stocks_data' = FrameAfterToDict(stocks_data, threads[i].t1)
    /\ UNCHANGED <<index, similarity_matrix, request, response, engine_calls>>

(* line 83 *)
ReadStock2(i) ==
    /\ threads[i].pc = "stock2"
    /\ threads' = [threads EXCEPT
                     ![i].stock2 = ToDict(stocks_data, threads[i].t2),
                     ![i].pc = "similarity"]
    /\ stocks_data' = FrameAfterToDict(stocks_data, threads[i].t2)
    /\ UNCHANGED <<index, similarity_matrix, request, response, engine_calls>>

(* lines 86-88 *)
ReadSimilarity(i) ==
    /\ threads[i].pc = "similarity"
    /\ threads' = [threads EXCEPT
                     ![i].similarity =
                        similarity_matrix[GetLoc(index, threads[i].t1)]
                                         [GetLoc(index, threads[i].t2)],
                     ![i].pc = "verdict"]
    /\ UNCHANGED <<index, stocks_data, similarity_matrix,
                   request, response, engine_calls>>

(* lines 91-135 *)
BuildResult(i) ==
    /\ threads[i].pc = "verdict"
    /\ LET th == threads[i]
       IN  threads' = [threads EXCEPT
                         ![i].response =
                            Ok(CompareBody(th.t1, th.t2, th.stock1, th.stock2,
                                           th.similarity,
                                           Verdict(th.t1, th.t2, th.stock1,
                                                   th.stock2))),
                         ![i].pc = "done"]
    /\ UNCHANGED <<index, stocks_data, similarity_matrix,
                   request, response, engine_calls>>

(* lines 138-139 *)
Except(i) ==
    /\ threads[i].pc = "except"
    /\ \E x \in CompareExcept(threads[i].exc) :
          threads' = [threads EXCEPT ![i].response = Err(x), ![i].pc = "done"]
    /\ UNCHANGED <<index, stocks_data, similarity_matrix,
                   request, response, engine_calls>>

NextConcurrent ==
    \E i \in Threads :
        \/ Receive(i)
        \/ Normalize(i)
        \/ CheckIndex(i)
        \/ ReadStock1(i)
        \/ ReadStock2(i)
        \/ ReadSimilarity(i)
        \/ BuildResult(i)
        \/ Except(i)

SpecConcurrent == InitConcurrent /\ [][NextConcurrent]_vars

(* ======================= properties of /compare ======================= *)

CompareServed == request.op = "compare"

ReqA == Upper(request.ticker1)

ReqB == Upper(request.ticker2)

BothCataloged ==
    CompareServed /\ ReqA \in Range(index) /\ ReqB \in Range(index)

CompareSucceeded == BothCataloged /\ response.kind = "ok"

(* the cell the frame holds for ticker t in column k; a column the frame   *)
(* lacks is missing for every ticker                                       *)
CellOf(t, k) == IF k \in DOMAIN stocks_data[t] THEN stocks_data[t][k] ELSE NaN

Missing(c) == c.kind # "num"

(* the value the specification compares: a missing metric counts as 0 *)
Effective(c) == IF Missing(c) THEN 0 ELSE c.v

NoneMissing ==
    \A k \in VerdictColumns :
        ~Missing(CellOf(ReqA, k)) /\ ~Missing(CellOf(ReqB, k))

(* the ticker a dimension credits on the values va (of a) and vb (of b):   *)
(* the lower beta, the higher value of every other metric; "" on a tie     *)
Credited(k, a, b, va, vb) ==
    IF va = vb THEN ""
    ELSE IF k = "beta" THEN (IF va < vb THEN a ELSE b)
    ELSE (IF va > vb THEN a ELSE b)

Other(t, a, b) == IF t = a THEN b ELSE a

SentenceFor(k, w, l) ==
    CASE k = "sharpe_ratio" -> PerformanceSentence(w)
      [] k = "beta" -> StableSentence(w, l)
      [] k = "esg_score" -> EsgSentence(w)
      [] k = "roe" -> EfficiencySentence(w, l)

RECURSIVE SentencesFrom(_, _, _, _)
(* the sentences of dimensions d..4 in the fixed order, on the values val  *)
SentencesFrom(d, a, b, val) ==
    IF d > Len(VerdictMetrics) THEN <<>>
    ELSE LET k == VerdictMetrics[d]
             w == Credited(k, a, b, val[a, k], val[b, k])
             rest == SentencesFrom(d + 1, a, b, val)
         IN  IF w = "" THEN rest
             ELSE <<SentenceFor(k, w, Other(w, a, b))>> \o rest

PresentValue == [t \in Range(index), k \in VerdictColumns |-> CellOf(t, k).v]

EffectiveValue ==
    [t \in Range(index), k \in VerdictColumns |-> Effective(CellOf(t, k))]

RECURSIVE Flatten(_)
Flatten(ss) == IF ss = <<>> THEN <<>> ELSE Head(ss) \o Flatten(Tail(ss))

RECURSIVE Interleave(_)
(* the sentences with one space between neighbours *)
Interleave(ss) ==
    IF Len(ss) <= 1 THEN Flatten(ss)
    ELSE Head(ss) \o <<" ">> \o Interleave(Tail(ss))

(* C1: a compare request naming a ticker that is not in the catalog is     *)
(* answered with the not-found error: status 404 and the detail            *)
(* 'One or both tickers not found.', never an error of another kind.       *)
C1_NotFoundIs404 ==
    (CompareServed /\ ~BothCataloged) =>
        /\ response.kind = "error"
        /\ response.status = 404
        /\ response.detail = NotFoundDetail

(* C4: when every verdict metric of both stocks is present and at least    *)
(* one dimension has a winner, the verdict is the sentences of the         *)
(* dimensions that have a winner, in the order Sharpe ratio, beta, ESG     *)
(* score, ROE, joined by single spaces; each sentence credits the higher   *)
(* Sharpe ratio, the lower beta, the higher ESG score, the higher ROE; a   *)
(* dimension with equal values contributes nothing.                        *)
C4_VerdictIsOrderedJoin ==
    (CompareSucceeded /\ NoneMissing) =>
        LET ss == SentencesFrom(1, ReqA, ReqB, PresentValue)
        IN  ss # <<>> => response.body.verdict = Interleave(ss)

C4_Witness ==
    /\ CompareSucceeded
    /\ NoneMissing
    /\ ReqA # ReqB
    /\ Len(SentencesFrom(1, ReqA, ReqB, PresentValue)) = 4
    /\ Credited("sharpe_ratio", ReqA, ReqB, PresentValue[ReqA, "sharpe_ratio"],
                PresentValue[ReqB, "sharpe_ratio"]) = ReqA
    /\ Credited("beta", ReqA, ReqB, PresentValue[ReqA, "beta"],
                PresentValue[ReqB, "beta"]) = ReqB

(* C5: the verdict of a successful compare is the fallback sentence if and *)
(* only if all four dimensions tie (a metric missing on both sides is a    *)
(* tie; a missing metric counts as 0), and the verdict is never empty.     *)
C5_FallbackIffAllTie ==
    CompareSucceeded =>
        /\ response.body.verdict # <<>>
        /\ (response.body.verdict = FallbackVerdict) <=>
              (\A k \in VerdictColumns :
                  EffectiveValue[ReqA, k] = EffectiveValue[ReqB, k])

(* C6: a missing metric is compared as 0: the verdict is the verdict of    *)
(* the same two records with every missing verdict metric set to 0.        *)
C6_MissingComparedAsZero ==
    CompareSucceeded =>
        LET ss == SentencesFrom(1, ReqA, ReqB, EffectiveValue)
        IN  response.body.verdict =
                (IF ss = <<>> THEN FallbackVerdict ELSE Interleave(ss))

(* C10: the verdict of compare(A,B) is the verdict of compare(B,A), and    *)
(* compare(A,A) of a cataloged A succeeds with the fallback verdict.       *)
C10_VerdictIgnoresArgumentOrder ==
    BothCataloged =>
        LET swapped == CompareTry(index, stocks_data, similarity_matrix,
                                  [op |-> "compare",
                                   ticker1 |-> request.ticker2,
                                   ticker2 |-> request.ticker1])
        IN  /\ response.kind = "ok"
            /\ swapped.kind = "return"
            /\ response.body.verdict = swapped.val.verdict
            /\ ReqA = ReqB => response.body.verdict = FallbackVerdict

C10_Witness ==
    /\ CompareSucceeded
    /\ ReqA # ReqB
    /\ \E i \in 1..Len(response.body.verdict) :
          response.body.verdict[i] = " tends to have a more stable price than "

(* ====================== properties of /recommend ====================== *)

RecommendServed == request.op = "recommend"

(* absent, or the empty string / the empty sequence *)
Empty(f) == f.kind = "none" \/ Len(f.val) = 0

EngineCalled == engine_calls # <<>>

(* C2: a recommend request with neither a non-empty portfolio nor a        *)
(* non-empty user_id gets status 400 with exactly the message "Provide     *)
(* either user_id or portfolio.", and the engine is not called.            *)
C2_NeitherGivesFixedMessage ==
    (RecommendServed /\ Empty(request.portfolio) /\ Empty(request.user_id)) =>
        /\ response.kind = "error"
        /\ response.status = 400
        /\ response.detail = ProvideDetail
        /\ ~EngineCalled

(* C3: a recommend request with a non-empty portfolio and a non-empty      *)
(* user_id calls the engine exactly once, with the table whose rows are    *)
(* the portfolio entries in order, and never with the user_id.             *)
C3_PortfolioTakesPrecedence ==
    (RecommendServed /\ ~Empty(request.portfolio) /\ ~Empty(request.user_id)) =>
        /\ Len(engine_calls) = 1
        /\ engine_calls[1].user_input.kind = "DataFrame"
        /\ LET rows == engine_calls[1].user_input.val
               entries == request.portfolio.val
           IN  /\ Len(rows) = Len(entries)
               /\ \A i \in 1..Len(entries) :
                     /\ rows[i].ticker = entries[i].ticker
                     /\ rows[i].weight = entries[i].weight

C3_Witness ==
    /\ RecommendServed
    /\ ~Empty(request.portfolio)
    /\ ~Empty(request.user_id)
    /\ EngineCalled
    /\ response.kind = "ok"

(* C7: when the engine is called and raises, the caller gets status 400    *)
(* with the engine's message and no result; when it returns a value, the   *)
(* caller gets exactly that value; never a result together with an error.  *)
C7_EngineOutcomePassedOn ==
    (RecommendServed /\ EngineCalled) =>
        LET out == engine_calls[1].outcome
        IN  /\ out.kind = "raise" =>
                  /\ response.kind = "error"
                  /\ response.status = 400
                  /\ response.detail = out.val.detail
                  /\ response.body = NoBody
            /\ out.kind = "return" =>
                  /\ response.kind = "ok"
                  /\ response.body = out.val
                  /\ response.detail = <<>>

C7_Witness ==
    /\ RecommendServed
    /\ EngineCalled
    /\ engine_calls[1].outcome.kind = "raise"
    /\ engine_calls[1].outcome.val.detail # <<>>
    /\ response.kind = "error"

(* C9: with the portfolio absent or empty, a non-empty user_id is          *)
(* delegated to the engine in user mode with that user_id; an absent or    *)
(* empty user_id is rejected with status 400 without calling the engine.   *)
C9_DispatchByEmptiness ==
    (RecommendServed /\ Empty(request.portfolio)) =>
        IF Empty(request.user_id)
        THEN /\ ~EngineCalled
             /\ response.kind = "error"
             /\ response.status = 400
        ELSE /\ Len(engine_calls) = 1
             /\ engine_calls[1].user_input.kind = "str"
             /\ engine_calls[1].user_input.val = request.user_id.val

C9_Witness ==
    /\ RecommendServed
    /\ request.portfolio = ListField(<<>>)
    /\ request.user_id = StrField(<<"u1">>)
    /\ Len(engine_calls) = 1

(* ================= properties of concurrent /compare ================== *)

(* C8: no step of any interleaving of compare requests changes the         *)
(* catalog records or the similarity matrix, and every finished request    *)
(* has an outcome it has when served alone on that catalog.                *)
C8_CompareReadsOnly ==
    [][/\ catalog' = catalog
       /\ \A i \in DOMAIN threads' :
             threads'[i].pc = "done" =>
                threads'[i].response \in
                    CompareResponses(index', stocks_data', similarity_matrix',
                                     [op |-> "compare",
                                      ticker1 |-> threads'[i].ticker1,
                                      ticker2 |-> threads'[i].ticker2])]_vars

C8_Witness ==
    \E i \in DOMAIN threads, j \in DOMAIN threads :
        /\ i # j
        /\ threads[i].pc = "done"
        /\ threads[i].response.kind = "ok"
        /\ threads[i].t1 # threads[i].t2
        /\ threads[j].pc = "stock2"

====
